---- MODULE Spec2Model ----
(***************************************************************************)
(* PredictiveModel of src/src/predictive_model.py as a state machine: one  *)
(* PredictiveModel object, its estimator (self.model) on a heap of         *)
(* estimator objects, and a caller that calls prepare_features, train and  *)
(* forecast with tables drawn from a bounded family.  A second             *)
(* specification, MainSpec, is the entry point of src/src/main.py: runs of *)
(* main in each report mode, one step of the mode's function at a time.    *)
(*                                                                         *)
(* Representation.  A date is a day number, day 0 = 2024-01-01 (a Monday). *)
(* A cell of a numeric column is Num(n), NaN (missing) or Inf.  A table    *)
(* carries the columns date, sales and revenue (the input contract: a date *)
(* column and the named target column).  Fractions are kept exact by       *)
(* scaling: test_size is in percent, rolling_mean_7 is held in sevenths    *)
(* (the window sum), rolling_std_7 is held as 42 times the sample variance *)
(* (7*sum(x^2) - sum(x)^2), and the confidence bounds are held in tenths.  *)
(***************************************************************************)
EXTENDS Integers, Sequences, FiniteSets, TLC

VARIABLES is_trained, model_metrics, feature_names, self_model, estimators,
          call, result, trained_ok, refitted, last_fit, caller_df, main

vars == <<is_trained, model_metrics, feature_names, self_model, estimators,
          call, result, trained_ok, refitted, last_fit, caller_df, main>>

\* ------------------------------------------------------------------ bounds
MaxLen == 17
MaxPeriods == 3
RawLen == 2

\* ------------------------------------------------------------------ cells
Num(n) == [k |-> "num", n |-> n]
NaN == [k |-> "nan", n |-> 0]
Inf == [k |-> "inf", n |-> 0]
IsNum(v) == v.k = "num"
IsNaN(v) == v.k = "nan"

\* A sequence given as a function on 1..n, as the tuple of its elements.
AsSeq(f) == SubSeq(f, 1, Len(f))

\* ------------------------------------------------------------------ calendar
\* First day number of each month of 2024, and of January 2025.
MonthStarts == <<0, 31, 60, 91, 121, 152, 182, 213, 244, 274, 305, 335, 366>>
DayOfWeek(d) == d % 7
MonthOf(d) == CHOOSE m \in 1..12 : MonthStarts[m] <= d /\ d < MonthStarts[m + 1]
DayOfMonth(d) == d - MonthStarts[MonthOf(d)] + 1
\* Series.dt.quarter, as pandas tabulates it per month.
DtQuarter(d) == <<1, 1, 1, 2, 2, 2, 3, 3, 3, 4, 4, 4>>[MonthOf(d)]
\* (forecast_date.month - 1) // 3 + 1
ForecastQuarter(d) == ((MonthOf(d) - 1) \div 3) + 1

\* ------------------------------------------------------------------ tables
Targets == {"sales", "revenue"}
OtherColumn(target) == IF target = "sales" THEN "revenue" ELSE "sales"

Defects == <<"inf_head", "inf_tail", "nan_last", "cov_nan", "gap", "swap_last", "inf_mid">>
Lens == <<0, 2>> \o [j \in 1..(MaxLen - 13) |-> 13 + j]

\* The tables the caller passes: a constant series at every length, a negative
\* constant series, a rising series of the greatest length, and a rising
\* series with each defect (an infinite cell early or late, a missing last
\* target, a missing covariate, a skipped date, the last two rows out of date
\* order, an infinite cell seven rows before the last), and a rising series of
\* the greatest length whose last target cell is infinite.
TableIds ==
    [j \in 1..Len(Lens) |-> [len |-> Lens[j], kind |-> "flat", defect |-> "none"]]
      \o <<[len |-> MaxLen - 1, kind |-> "neg", defect |-> "none"],
           [len |-> MaxLen, kind |-> "ramp", defect |-> "none"]>>
      \o [j \in 1..Len(Defects) |->
            [len |-> MaxLen - 1, kind |-> "ramp", defect |-> Defects[j]]]
      \o <<[len |-> MaxLen, kind |-> "ramp", defect |-> "inf_last"]>>
NumTables == Len(TableIds)

\* The (table, target column) pairs of the calls: every table with sales, the
\* rising series, whole and with the missing covariate, with revenue too.
Inputs ==
    [j \in 1..NumTables |-> [table |-> j, target |-> "sales"]]
      \o SelectSeq([j \in 1..NumTables |-> [table |-> j, target |-> "revenue"]],
                   LAMBDA in : /\ TableIds[in.table].defect \in {"none", "cov_nan"}
                               /\ TableIds[in.table].kind = "ramp")
NumInputs == Len(Inputs)

StartDay(kind) == IF kind = "ramp" THEN 75 ELSE 0
BaseSales(kind, t) ==
    CASE kind = "flat" -> 100
      [] kind = "neg" -> 0 - 100
      [] kind = "ramp" -> 100 + 5 * t

\* Position t (1-based) of table id, before the swap of the last two rows.
PlainRow(id, t) ==
    [date |-> StartDay(id.kind) + (t - 1)
                + (IF id.defect = "gap" /\ t > 10 THEN 1 ELSE 0),
     sales |-> IF id.defect = "inf_head" /\ t = 1 THEN Inf
               ELSE IF id.defect = "inf_tail" /\ t = id.len - 14 THEN Inf
               ELSE IF id.defect = "inf_mid" /\ t = id.len - 7 THEN Inf
               ELSE IF id.defect = "nan_last" /\ t = id.len THEN NaN
               ELSE IF id.defect = "inf_last" /\ t = id.len THEN Inf
               ELSE Num(BaseSales(id.kind, t)),
     revenue |-> IF id.defect = "cov_nan" /\ t = id.len - 1 THEN NaN
                 ELSE Num(10 * BaseSales(id.kind, t))]

TableOf(id) ==
    AsSeq([t \in 1..id.len |->
        IF id.defect = "swap_last" /\ t = id.len THEN PlainRow(id, t - 1)
        ELSE IF id.defect = "swap_last" /\ t = id.len - 1 THEN PlainRow(id, t + 1)
        ELSE PlainRow(id, t)])

\* ------------------------------------------------------------------ prepare_features
\* Series.shift(lag): the cell lag positions earlier, missing for the first rows.
Shift(df, col, t, lag) == IF t - lag >= 1 THEN df[t - lag][col] ELSE NaN

RECURSIVE SumOver(_, _, _, _)
SumOver(df, col, from, to) ==
    IF from > to THEN 0 ELSE df[from][col].n + SumOver(df, col, from + 1, to)

RECURSIVE SumSqOver(_, _, _, _)
SumSqOver(df, col, from, to) ==
    IF from > to THEN 0
    ELSE df[from][col].n * df[from][col].n + SumSqOver(df, col, from + 1, to)

\* rolling(window=7): min_periods is the window, and a window holding a missing
\* or an infinite cell (converted to missing before aggregation) has no value.
WindowFull(df, col, t) == t >= 7 /\ \A s \in (t - 6)..t : IsNum(df[s][col])
\* Mutant of RollingMean7: the window ends on the row before.
RollingMean7_Trailing(df, col, t) ==
    IF WindowFull(df, col, t) /\ t >= 8
    THEN Num(SumOver(df, col, t - 7, t - 1)) ELSE NaN

RollingMean7(df, col, t) ==
    IF WindowFull(df, col, t) THEN Num(SumOver(df, col, t - 6, t)) ELSE NaN
RollingStd7(df, col, t) ==
    IF WindowFull(df, col, t)
    THEN LET sum == SumOver(df, col, t - 6, t)
         IN Num(7 * SumSqOver(df, col, t - 6, t) - sum * sum)
    ELSE NaN

feature_columns ==
    <<"day_of_week", "day_of_month", "month", "quarter",
      "lag_1", "lag_7", "lag_14", "rolling_mean_7", "rolling_std_7">>

\* The columns of df_features once the derived ones are added.
df_features_columns ==
    {"date", "sales", "revenue", "day_of_week", "day_of_month", "month", "quarter",
     "lag_1", "lag_7", "lag_14", "rolling_mean_7", "rolling_std_7"}

\* Mutant of FeatureRow: lag_14 shifted by 13.
FeatureRow_Lag13(df, target, t) ==
    [day_of_week |-> Num(DayOfWeek(df[t].date)),
     day_of_month |-> Num(DayOfMonth(df[t].date)),
     month |-> Num(MonthOf(df[t].date)),
     quarter |-> Num(DtQuarter(df[t].date)),
     lag_1 |-> Shift(df, target, t, 1),
     lag_7 |-> Shift(df, target, t, 7),
     lag_14 |-> Shift(df, target, t, 13),
     rolling_mean_7 |-> RollingMean7(df, target, t),
     rolling_std_7 |-> RollingStd7(df, target, t)]

\* The derived columns of row t of df_features.
FeatureRow(df, target, t) ==
    [day_of_week |-> Num(DayOfWeek(df[t].date)),
     day_of_month |-> Num(DayOfMonth(df[t].date)),
     month |-> Num(MonthOf(df[t].date)),
     quarter |-> Num(DtQuarter(df[t].date)),
     lag_1 |-> Shift(df, target, t, 1),
     lag_7 |-> Shift(df, target, t, 7),
     lag_14 |-> Shift(df, target, t, 14),
     rolling_mean_7 |-> RollingMean7(df, target, t),
     rolling_std_7 |-> RollingStd7(df, target, t)]

\* Mutant of DroppedRow: dropna(subset=[the input's columns]).
DroppedRow_InputColumnsOnly(df, target, t) ==
    IsNaN(df[t].sales) \/ IsNaN(df[t].revenue)

\* dropna(): a row goes when any column of df_features, the input's own
\* columns included, is missing there.  An infinite cell is not missing.
DroppedRow(df, target, t) ==
    LET row == FeatureRow(df, target, t)
    IN \/ IsNaN(df[t].sales)
       \/ IsNaN(df[t].revenue)
       \/ \E c \in DOMAIN row : IsNaN(row[c])

\* The index of df_features after dropna(): the surviving positions, in order.
KeptIndex(df, target) ==
    SelectSeq([t \in 1..Len(df) |-> t], LAMBDA t : ~DroppedRow(df, target, t))

\* Mutant of prepare_features: y taken from the table before dropna().
prepare_features_TargetBeforeDropna(df, target) ==
    LET index == KeptIndex(df, target)
    IN [index |-> index,
        X |-> AsSeq([j \in 1..Len(index) |-> FeatureRow(df, target, index[j])]),
        y |-> AsSeq([t \in 1..Len(df) |-> df[t][target]]),
        names |-> SelectSeq(feature_columns, LAMBDA c : c \in df_features_columns)]

\* Mutant of prepare_features: the lag columns come first for a target other
\* than sales.
prepare_features_NamesByTarget(df, target) ==
    LET index == KeptIndex(df, target)
    IN [index |-> index,
        X |-> AsSeq([j \in 1..Len(index) |-> FeatureRow(df, target, index[j])]),
        y |-> AsSeq([j \in 1..Len(index) |-> df[index[j]][target]]),
        names |-> IF target = "sales" THEN feature_columns
                  ELSE SubSeq(feature_columns, 5, 9) \o SubSeq(feature_columns, 1, 4)]

\* X, y and available_features; index is the index X and y share.
prepare_features(df, target) ==
    LET index == KeptIndex(df, target)
    IN [index |-> index,
        X |-> AsSeq([j \in 1..Len(index) |-> FeatureRow(df, target, index[j])]),
        y |-> AsSeq([j \in 1..Len(index) |-> df[index[j]][target]]),
        names |-> SelectSeq(feature_columns, LAMBDA c : c \in df_features_columns)]

\* The columns of the tables the caller passes.
df_columns == {"date", "sales", "revenue"}

\* A table nobody has written to: its columns and its rows.
Untouched(df) == [columns |-> df_columns, rows |-> df]

\* Mutant of CallerTable: the derived columns are assigned on df itself.
CallerTable_NoCopy(df, target) == [columns |-> df_features_columns, rows |-> df]

\* The caller's table once prepare_features has run: df_features = df.copy()
\* takes every assignment, and dropna() returns a new table, so df keeps its
\* columns and its rows.
CallerTable(df, target) == Untouched(df)

\* The calls' tables and what prepare_features returns on each, computed once.
Tables == [j \in 1..NumTables |-> TableOf(TableIds[j])]
Prepared == [k \in 1..NumInputs |->
                prepare_features(Tables[Inputs[k].table], Inputs[k].target)]

\* ------------------------------------------------------------------ estimator
NumFeatures == Len(feature_columns)
ZeroCoef == AsSeq([j \in 1..NumFeatures |-> 0])
\* A LinearRegression object: unfitted as constructed, then coef_ and intercept_.
Unfitted == [fitted |-> FALSE, coef |-> ZeroCoef, intercept |-> 0]
Fitted(coef, intercept) == [fitted |-> TRUE, coef |-> coef, intercept |-> intercept]

\* check_array: sklearn refuses a matrix holding a missing or an infinite cell.
RowFinite(x) == \A c \in DOMAIN x : IsNum(x[c])
AllFinite(X) == \A j \in 1..Len(X) : RowFinite(X[j])

Range(s) == {s[j] : j \in 1..Len(s)}

\* LinearRegression.fit centres X and y and takes the minimum-norm least-squares
\* solution.  When the centred target is zero (one training row, or a constant
\* target) that solution is exactly coef_ = 0, intercept_ = the target's value.
\* Otherwise the solution is real-valued and outside the integers: the model
\* takes each parameter vector of this bounded set as a possible outcome
\* (a constant predictor at the first training target, or persistence on lag_1).
LinearRegressionFit(X, y) ==
    IF Cardinality(Range(y)) = 1
    THEN {Fitted(ZeroCoef, y[1].n)}
    ELSE {Fitted(ZeroCoef, y[1].n), Fitted([ZeroCoef EXCEPT ![5] = 1], 0)}

RECURSIVE Dot(_, _, _)
Dot(coef, x, j) ==
    IF j > NumFeatures THEN 0
    ELSE coef[j] * x[feature_columns[j]].n + Dot(coef, x, j + 1)

\* LinearRegression.predict on one row: X @ coef_ + intercept_.
Predict(est, x) == est.intercept + Dot(est.coef, x, 1)

\* ------------------------------------------------------------------ train_test_split
CeilDiv(a, b) == (a + b - 1) \div b

\* Mutant of train_test_split: n_test rounded down instead of up.
train_test_split_Floor(n, test_size) ==
    LET n_test == (test_size * n) \div 100
        n_train == n - n_test
    IN IF test_size < 0 \/ test_size >= 100 \/ n_train = 0
       THEN [ok |-> FALSE, train |-> <<>>, test |-> <<>>]
       ELSE [ok |-> TRUE,
             train |-> AsSeq([j \in 1..n_train |-> j]),
             test |-> AsSeq([j \in 1..n_test |-> n_train + j])]

\* Mutant of train_test_split: the test rows taken from the front.
train_test_split_TestFirst(n, test_size) ==
    LET n_test == CeilDiv(test_size * n, 100)
        n_train == n - n_test
    IN IF test_size <= 0 \/ test_size >= 100 \/ n_train = 0
       THEN [ok |-> FALSE, train |-> <<>>, test |-> <<>>]
       ELSE [ok |-> TRUE,
             train |-> AsSeq([j \in 1..n_train |-> n_test + j]),
             test |-> AsSeq([j \in 1..n_test |-> j])]

\* train_test_split(X, y, test_size, shuffle=False) on n rows, test_size in
\* percent: a fraction outside (0, 1) is refused, n_test = ceil(test_size * n),
\* n_train = n - n_test, and an empty training set is refused.  The training
\* rows are the first n_train positions, the test rows the next n_test.
train_test_split(n, test_size) ==
    LET n_test == CeilDiv(test_size * n, 100)
        n_train == n - n_test
    IN IF test_size <= 0 \/ test_size >= 100 \/ n_train = 0
       THEN [ok |-> FALSE, train |-> <<>>, test |-> <<>>]
       ELSE [ok |-> TRUE,
             train |-> AsSeq([j \in 1..n_train |-> j]),
             test |-> AsSeq([j \in 1..n_test |-> n_train + j])]

Take(s, pos) == AsSeq([j \in 1..Len(pos) |-> s[pos[j]]])

\* ------------------------------------------------------------------ metrics
RECURSIVE SquaredError(_, _, _, _)
SquaredError(est, X, y, j) ==
    IF j > Len(X) THEN 0
    ELSE (y[j].n - Predict(est, X[j])) * (y[j].n - Predict(est, X[j]))
           + SquaredError(est, X, y, j + 1)

RECURSIVE TargetSum(_, _)
TargetSum(y, j) == IF j > Len(y) THEN 0 ELSE y[j].n + TargetSum(y, j + 1)

RECURSIVE TargetSumSq(_, _)
TargetSumSq(y, j) == IF j > Len(y) THEN 0 ELSE y[j].n * y[j].n + TargetSumSq(y, j + 1)

\* r2_score(y, y_pred): not defined on fewer than two samples, where it
\* returns nan.  Otherwise it is 1 - res/tot, kept as the two sums of squares,
\* each times the number of samples (a zero tot gives 1.0 when res is zero as
\* well and 0.0 when it is not).
R2Score(est, X, y) ==
    IF Len(X) < 2 THEN [k |-> "nan", res |-> 0, tot |-> 0]
    ELSE [k |-> "num",
          res |-> Len(X) * SquaredError(est, X, y, 1),
          tot |-> Len(X) * TargetSumSq(y, 1) - TargetSum(y, 1) * TargetSum(y, 1)]

\* self.model_metrics = {} of __init__.
NoMetrics == [empty |-> TRUE]

\* Mutant of Metrics: each name zipped with the coefficient one place on.
Metrics_ShiftedCoef(est, names, Xtr, ytr, Xte, yte) ==
    [empty |-> FALSE,
     r2_train |-> R2Score(est, Xtr, ytr),
     r2_test |-> R2Score(est, Xte, yte),
     sse_train |-> SquaredError(est, Xtr, ytr, 1),
     sse_test |-> SquaredError(est, Xte, yte, 1),
     feature_importance |->
         AsSeq([j \in 1..Len(names) |-> <<names[j], est.coef[(j % Len(names)) + 1]>>]),
     intercept |-> est.intercept,
     num_features |-> Len(names),
     train_samples |-> Len(Xtr),
     test_samples |-> Len(Xte)]

\* The metrics dictionary of train; sse_* is mse_* times the segment's samples.
Metrics(est, names, Xtr, ytr, Xte, yte) ==
    [empty |-> FALSE,
     r2_train |-> R2Score(est, Xtr, ytr),
     r2_test |-> R2Score(est, Xte, yte),
     sse_train |-> SquaredError(est, Xtr, ytr, 1),
     sse_test |-> SquaredError(est, Xte, yte, 1),
     feature_importance |-> AsSeq([j \in 1..Len(names) |-> <<names[j], est.coef[j]>>]),
     intercept |-> est.intercept,
     num_features |-> Len(names),
     train_samples |-> Len(Xtr),
     test_samples |-> Len(Xte)]

\* ------------------------------------------------------------------ outcomes
\* The ValueErrors of the module and of sklearn, by what they report.
NotTrained == "Model must be trained before forecasting"
InsufficientHistory == "No data available for forecasting"
InsufficientData == "train_test_split: test_size out of range or empty train set"
NonFinite == "Input X contains infinity"

\* What a call hands back: error is "" when it returned.  A raised call hands
\* back nothing but the error.  X and y are filled by prepare_features, after
\* (the working vector as each step leaves it) by forecast, table by clean_data.
Outcome(op, error, index, names, train, test, metrics, points, used) ==
    [op |-> op, error |-> error, index |-> index, names |-> names,
     train |-> train, test |-> test, metrics |-> metrics,
     points |-> points, used |-> used,
     X |-> <<>>, y |-> <<>>, after |-> <<>>, table |-> <<>>]
Raised(op, error) == Outcome(op, error, <<>>, <<>>, <<>>, <<>>, NoMetrics, <<>>, <<>>)
\* The last call's arguments.
NoCall == [op |-> "none", in |-> 1, test_size |-> 0, periods |-> 0, raw |-> <<>>]

\* ------------------------------------------------------------------ clean_data
\* A cell read from a file that is not a number or a date.
Text == [k |-> "text", n |-> 0]

\* The configuration of _load_config.
date_columns == {"date", "timestamp", "created_at"}
numeric_columns == {"sales", "revenue", "users", "conversion_rate"}

\* The raw tables: a date column, sales (a configured numeric column) and
\* cost (a column the configuration does not name).
raw_columns == {"date", "sales", "cost"}
\* The date and cost columns together: consecutive dates with every cost, one
\* date on every row with the last cost missing, a first date that does not
\* parse.
RawFrames ==
    {[dates |-> [t \in 1..RawLen |-> Num(t - 1)],
      costs |-> [t \in 1..RawLen |-> Num(7)]],
     [dates |-> [t \in 1..RawLen |-> Num(0)],
      costs |-> [t \in 1..RawLen |-> IF t = RawLen THEN NaN ELSE Num(7)]],
     [dates |-> [t \in 1..RawLen |-> IF t = 1 THEN Text ELSE Num(t - 1)],
      costs |-> [t \in 1..RawLen |-> Num(7)]]}
RawSales == [1..RawLen -> {Num(100), NaN}]
              \cup {[t \in 1..RawLen |-> IF t = 1 THEN Text ELSE Num(100)]}
RawTable(dates, sales, costs) ==
    AsSeq([t \in 1..RawLen |-> [date |-> dates[t], sales |-> sales[t], cost |-> costs[t]]])

\* pd.to_datetime(errors="coerce") and pd.to_numeric(errors="coerce"): what
\* does not parse becomes missing.
ToDatetime(v) == IF v.k = "text" THEN NaN ELSE v
ToNumeric(v) == IF v.k = "text" THEN NaN ELSE v

\* Series.ffill(): a missing cell takes the nearest earlier cell that is not
\* missing, and stays missing when there is none.
FFill(col) ==
    AsSeq([t \in 1..Len(col) |->
        LET known == {i \in 1..t : ~IsNaN(col[i])}
        IN IF known = {} THEN NaN
           ELSE col[CHOOSE i \in known : \A o \in known : o <= i]])

\* Series.bfill(): the same with the nearest later cell.
BFill(col) ==
    AsSeq([t \in 1..Len(col) |->
        LET known == {i \in t..Len(col) : ~IsNaN(col[i])}
        IN IF known = {} THEN NaN
           ELSE col[CHOOSE i \in known : \A o \in known : i <= o]])

\* DataFrame.drop_duplicates(): a row equal in every column to an earlier row
\* goes (missing cells compare equal).
DropDuplicates(rows) ==
    LET keep == SelectSeq([t \in 1..Len(rows) |-> t],
                          LAMBDA t : \A e \in 1..(t - 1) : rows[e] # rows[t])
    IN AsSeq([j \in 1..Len(keep) |-> rows[keep[j]]])

\* Column col of df after the loops over the configured columns: the date
\* columns converted, the numeric columns converted and filled, the others as
\* they came.
CleanedColumn(df, col) ==
    LET cells == AsSeq([t \in 1..Len(df) |-> df[t][col]])
    IN IF col \in date_columns
       THEN AsSeq([t \in 1..Len(df) |-> ToDatetime(cells[t])])
       ELSE IF col \in numeric_columns
       THEN BFill(FFill(AsSeq([t \in 1..Len(df) |-> ToNumeric(cells[t])])))
       ELSE cells

\* clean_data(df): the cleaned copy.
clean_data(df) ==
    LET date == CleanedColumn(df, "date")
        sales == CleanedColumn(df, "sales")
        cost == CleanedColumn(df, "cost")
    IN DropDuplicates(AsSeq([t \in 1..Len(df) |->
           [date |-> date[t], sales |-> sales[t], cost |-> cost[t]]]))

\* ------------------------------------------------------------------ forecast
MaxDate(df) == CHOOSE d \in {df[t].date : t \in 1..Len(df)} :
                   \A t \in 1..Len(df) : df[t].date <= d

\* Mutant of future_dates: the range starts on last_date itself.
future_dates_FromLastDate(last_date, periods) ==
    AsSeq([j \in 1..periods |-> last_date + (j - 1)])

\* pd.date_range(start=last_date + timedelta(days=1), periods=periods, freq='D')
future_dates(last_date, periods) ==
    AsSeq([j \in 1..periods |-> (last_date + 1) + (j - 1)])

\* Mutant of ForecastRecord: forecast_period counted from 0.
ForecastRecord_ZeroBased(target, forecast_date, prediction, i) ==
    [date |-> forecast_date,
     key |-> "predicted_" \o target,
     predicted |-> prediction,
     forecast_period |-> i,
     confidence_interval_lower |-> prediction * 9,
     confidence_interval_upper |-> prediction * 11]

\* Mutant of ForecastRecord: the upper bound takes the lower bound's factor.
ForecastRecord_SameFactor(target, forecast_date, prediction, i) ==
    [date |-> forecast_date,
     key |-> "predicted_" \o target,
     predicted |-> prediction,
     forecast_period |-> i + 1,
     confidence_interval_lower |-> prediction * 9,
     confidence_interval_upper |-> prediction * 9]

\* The dictionary appended at step i (0-based); the bounds are in tenths.
ForecastRecord(target, forecast_date, prediction, i) ==
    [date |-> forecast_date,
     key |-> "predicted_" \o target,
     predicted |-> prediction,
     forecast_period |-> i + 1,
     confidence_interval_lower |-> prediction * 9,
     confidence_interval_upper |-> prediction * 11]

\* Mutant of RefreshDate: the quarter left as the vector holds it.
RefreshDate_KeepsQuarter(current, forecast_date) ==
    [current EXCEPT !.day_of_week = Num(DayOfWeek(forecast_date)),
                    !.day_of_month = Num(DayOfMonth(forecast_date)),
                    !.month = Num(MonthOf(forecast_date))]

\* Mutant of RefreshDate: lag_7 moved on as well, to the vector's lag_1.
RefreshDate_MovesLag7(current, forecast_date) ==
    [current EXCEPT !.day_of_week = Num(DayOfWeek(forecast_date)),
                    !.day_of_month = Num(DayOfMonth(forecast_date)),
                    !.month = Num(MonthOf(forecast_date)),
                    !.quarter = Num(ForecastQuarter(forecast_date)),
                    !.lag_7 = current.lag_1]

\* The date features of the working vector, overwritten for the forecast date.
RefreshDate(current, forecast_date) ==
    [current EXCEPT !.day_of_week = Num(DayOfWeek(forecast_date)),
                    !.day_of_month = Num(DayOfMonth(forecast_date)),
                    !.month = Num(MonthOf(forecast_date)),
                    !.quarter = Num(ForecastQuarter(forecast_date))]

\* Mutant of NextLag1: after step i > 0, the prediction of step i itself.
NextLag1_OwnPrediction(df, target, forecasts, i) ==
    IF i = 0 THEN df[Len(df)][target]
    ELSE Num(forecasts[Len(forecasts)].predicted)

\* lag_1 of the working vector after step i: the last cell of the target column
\* at i = 0, afterwards forecasts[-2] (forecasts already holds step i's record).
NextLag1(df, target, forecasts, i) ==
    IF i = 0 THEN df[Len(df)][target]
    ELSE Num(forecasts[Len(forecasts) - 1].predicted)

\* The loop over range(periods) from step i on.  A working vector sklearn
\* refuses makes predict raise, and the call returns nothing.  used collects
\* the vector each step hands to predict, after the vector each step leaves.
RECURSIVE ForecastLoop(_, _, _, _, _, _, _, _, _)
ForecastLoop(est, df, target, dates, i, current, forecasts, used, after) ==
    IF i = Len(dates)
    THEN [Outcome("forecast", "", <<>>, <<>>, <<>>, <<>>, NoMetrics, forecasts, used)
            EXCEPT !.after = after]
    ELSE LET refreshed == RefreshDate(current, dates[i + 1])
         IN IF ~RowFinite(refreshed)
            THEN Raised("forecast", NonFinite)
            ELSE LET appended == Append(forecasts,
                         ForecastRecord(target, dates[i + 1], Predict(est, refreshed), i))
                     updated == [refreshed EXCEPT
                                    !.lag_1 = NextLag1(df, target, appended, i)]
                 IN ForecastLoop(est, df, target, dates, i + 1, updated,
                        appended, Append(used, refreshed), Append(after, updated))

\* The returned forecast with the column order of the working vector, which is
\* the column order of X_last: assigning to an existing column keeps its place.
WithColumns(out, names) == IF out.error = "" THEN [out EXCEPT !.names = names] ELSE out

\* Mutant of forecast: no feature row gives an empty forecast instead of raising.
forecast_EmptyOnNoRows(trained, est, in, periods) ==
    IF ~trained THEN Raised("forecast", NotTrained)
    ELSE LET df == Tables[Inputs[in].table]
             X_last == Prepared[in].X
         IN IF Len(X_last) = 0
            THEN Outcome("forecast", "", <<>>, <<>>, <<>>, <<>>, NoMetrics, <<>>, <<>>)
            ELSE WithColumns(ForecastLoop(est, df, Inputs[in].target,
                                          future_dates(MaxDate(df), periods), 0,
                                          X_last[Len(X_last)], <<>>, <<>>, <<>>),
                             Prepared[in].names)

\* forecast(df, periods, target_column) on a model whose estimator is est,
\* for the table and target column of input number in.
forecast(trained, est, in, periods) ==
    IF ~trained THEN Raised("forecast", NotTrained)
    ELSE LET df == Tables[Inputs[in].table]
             X_last == Prepared[in].X
         IN IF Len(X_last) = 0 THEN Raised("forecast", InsufficientHistory)
            ELSE WithColumns(ForecastLoop(est, df, Inputs[in].target,
                                          future_dates(MaxDate(df), periods), 0,
                                          X_last[Len(X_last)], <<>>, <<>>, <<>>),
                             Prepared[in].names)

\* ------------------------------------------------------------------ train
\* test_size=0.2 of train's signature, in percent.
DefaultTestSize == 20
TestSizes == <<0, DefaultTestSize, 50, 90>>

\* Mutant of StoreFit: every fit makes a new estimator object.
StoreFit_NewObject(heap, ref, est) == [heap |-> Append(heap, est), ref |-> Len(heap) + 1]

\* self.model.fit(...) refits the estimator object self.model refers to.
StoreFit(heap, ref, est) == [heap |-> [heap EXCEPT ![ref] = est], ref |-> ref]

\* The rows train hands to fit and to predict: prepare_features, then the split.
TrainingData(in, test_size) ==
    LET f == Prepared[in]
        split == train_test_split(Len(f.X), test_size)
    IN [ok |-> split.ok, names |-> f.names, index |-> f.index,
        train |-> Take(f.index, split.train), test |-> Take(f.index, split.test),
        X_train |-> Take(f.X, split.train), y_train |-> Take(f.y, split.train),
        X_test |-> Take(f.X, split.test), y_test |-> Take(f.y, split.test)]

TrainingSets == [in \in 1..NumInputs |->
                    [m \in 1..Len(TestSizes) |-> TrainingData(in, TestSizes[m])]]

\* ------------------------------------------------------------------ main
\* --report choices of main.
Modes == {"daily", "forecast", "data", "all"}
\* periods=7 of generate_daily_report, periods=14 of generate_forecast_only.
DailyPeriods == 7
ForecastOnlyPeriods == 14
ReportPeriods(mode) == IF mode = "forecast" THEN ForecastOnlyPeriods ELSE DailyPeriods

\* The files a run writes.
ProcessedCsv == "data/processed/processed_data.csv"
ForecastCsv == "data/forecasts/forecast_results.csv"
ForecastXlsx == "reports/forecast_reports/forecast.xlsx"
DailyReport == "reports/daily_reports/daily_report"
MacroFile == "excel_files/macro_scripts/macro"

\* A run of main: its mode, the statement it is at, the table process_pipeline
\* returned, the exit status (-1 while running), the files written, the calls
\* that returned, in order, and the call that raised.
NoRun == [mode |-> "all", pc |-> "idle", in |-> 1, exit |-> 0 - 1,
          produced |-> {}, steps |-> <<>>, failed |-> ""]

\* What process_pipeline can return: clean_data forward- and back-fills every
\* numeric column, so no numeric cell of the table is missing; the target of
\* every run is sales.
ProcessedInputs ==
    {in \in 1..NumInputs :
        /\ Inputs[in].target = "sales"
        /\ \A t \in 1..Len(Tables[Inputs[in].table]) :
              /\ ~IsNaN(Tables[Inputs[in].table][t].sales)
              /\ ~IsNaN(Tables[Inputs[in].table][t].revenue)}

\* test_size is left to its default in both calls of train.
DefaultSplit == CHOOSE m \in 1..Len(TestSizes) : TestSizes[m] = DefaultTestSize

\* The call returned: the run moves to the next statement (past the last one,
\* main returns and the process exits with status 0).
Returned(run, step, next) ==
    [run EXCEPT !.pc = next, !.steps = Append(@, step),
                !.exit = IF next = "done" THEN 0 ELSE @]
\* The call raised: the except clauses log and re-raise, main prints the
\* error and calls sys.exit(1).
RaisedIn(run, step) == [run EXCEPT !.pc = "failed", !.failed = step, !.exit = 1]

\* Mutant of AfterCall: the exception is swallowed and the run goes on.
AfterCall_IgnoresFailure(run, outcome, step, next) == Returned(run, step, next)

\* A call of the model inside the try block of a report function.
AfterCall(run, outcome, step, next) ==
    IF outcome.error = "" THEN Returned(run, step, next) ELSE RaisedIn(run, step)

\* ------------------------------------------------------------------ state machine
\* PredictiveModel(): one LinearRegression object, nothing trained, no call yet.
Init ==
    /\ is_trained = FALSE
    /\ model_metrics = NoMetrics
    /\ feature_names = <<>>
    /\ self_model = 1
    /\ estimators = <<Unfitted>>
    /\ call = NoCall
    /\ result = Raised("none", "")
    /\ trained_ok = FALSE
    /\ refitted = FALSE
    /\ last_fit = Unfitted
    /\ caller_df = Untouched(Tables[Inputs[NoCall.in].table])
    /\ main = NoRun

\* model.prepare_features(df, target_column)
PrepareFeatures(in) ==
    LET f == Prepared[in]
    IN /\ call' = [NoCall EXCEPT !.op = "prepare_features", !.in = in]
       /\ result' = [Outcome("prepare_features", "", f.index, f.names,
                             <<>>, <<>>, NoMetrics, <<>>, <<>>)
                        EXCEPT !.X = f.X, !.y = f.y]
       /\ caller_df' = CallerTable(Tables[Inputs[in].table], Inputs[in].target)
       /\ UNCHANGED <<is_trained, model_metrics, feature_names, self_model,
                      estimators, trained_ok, refitted, last_fit>>

\* model.train(df, target_column, test_size)
Train(in, m) ==
    LET d == TrainingSets[in][m]
    IN /\ call' = [NoCall EXCEPT !.op = "train", !.in = in, !.test_size = TestSizes[m]]
       /\ caller_df' = CallerTable(Tables[Inputs[in].table], Inputs[in].target)
       /\ \/ \* train_test_split raises
             /\ ~d.ok
             /\ result' = Raised("train", InsufficientData)
             /\ UNCHANGED <<is_trained, model_metrics, feature_names, self_model,
                            estimators, trained_ok, refitted, last_fit>>
          \/ \* fit raises on its input, before it sets anything
             /\ d.ok /\ ~AllFinite(d.X_train)
             /\ result' = Raised("train", NonFinite)
             /\ UNCHANGED <<is_trained, model_metrics, feature_names, self_model,
                            estimators, trained_ok, refitted, last_fit>>
          \/ \* fit returns: lines 101-103, then the predictions and the metrics
             /\ d.ok /\ AllFinite(d.X_train)
             /\ \E est \in LinearRegressionFit(d.X_train, d.y_train) :
                  LET stored == StoreFit(estimators, self_model, est)
                  IN /\ estimators' = stored.heap
                     /\ self_model' = stored.ref
                     /\ last_fit' = est
                     /\ refitted' = (refitted \/ (estimators[self_model].fitted
                                                    /\ est # estimators[self_model]))
                     /\ is_trained' = TRUE
                     /\ feature_names' = d.names
                     /\ IF AllFinite(d.X_test)
                        THEN /\ model_metrics' = Metrics(est, d.names, d.X_train,
                                                   d.y_train, d.X_test, d.y_test)
                             /\ result' = Outcome("train", "", d.index, d.names,
                                              d.train, d.test, model_metrics', <<>>, <<>>)
                             /\ trained_ok' = TRUE
                        ELSE \* predict(X_test) raises
                             /\ result' = Raised("train", NonFinite)
                             /\ UNCHANGED <<model_metrics, trained_ok>>

\* Mutant of Forecast: the call clears the metrics of the model.
Forecast_ResetsMetrics(in, periods) ==
    /\ call' = [NoCall EXCEPT !.op = "forecast", !.in = in, !.periods = periods]
    /\ result' = forecast(is_trained, estimators[self_model], in, periods)
    /\ caller_df' = IF is_trained
                    THEN CallerTable(Tables[Inputs[in].table], Inputs[in].target)
                    ELSE Untouched(Tables[Inputs[in].table])
    /\ model_metrics' = NoMetrics
    /\ UNCHANGED <<is_trained, feature_names, self_model,
                   estimators, trained_ok, refitted, last_fit>>

\* model.forecast(df, periods, target_column)
Forecast(in, periods) ==
    /\ call' = [NoCall EXCEPT !.op = "forecast", !.in = in, !.periods = periods]
    /\ result' = forecast(is_trained, estimators[self_model], in, periods)
    /\ caller_df' = IF is_trained
                    THEN CallerTable(Tables[Inputs[in].table], Inputs[in].target)
                    ELSE Untouched(Tables[Inputs[in].table])
    /\ UNCHANGED <<is_trained, model_metrics, feature_names, self_model,
                   estimators, trained_ok, refitted, last_fit>>

\* processor.clean_data(df): df_clean = df.copy() takes every assignment.
CleanData(raw) ==
    /\ call' = [NoCall EXCEPT !.op = "clean_data", !.raw = raw]
    /\ result' = [Outcome("clean_data", "", <<>>, <<>>, <<>>, <<>>, NoMetrics, <<>>, <<>>)
                     EXCEPT !.table = clean_data(raw)]
    /\ caller_df' = [columns |-> raw_columns, rows |-> raw]
    /\ UNCHANGED <<is_trained, model_metrics, feature_names, self_model,
                   estimators, trained_ok, refitted, last_fit>>

Next ==
    \/ \E in \in 1..NumInputs : PrepareFeatures(in) /\ UNCHANGED main
    \/ \E in \in 1..NumInputs, m \in 1..Len(TestSizes) :
          Train(in, m) /\ UNCHANGED main
    \/ \E in \in 1..NumInputs, periods \in 0..MaxPeriods :
          Forecast(in, periods) /\ UNCHANGED main
    \/ \E frame \in RawFrames, sales \in RawSales :
          CleanData(RawTable(frame.dates, sales, frame.costs)) /\ UNCHANGED main

Spec == Init /\ [][Next]_vars

\* ---- main.py: one run after another, each in the mode given by --report.
model_vars == <<is_trained, model_metrics, feature_names, self_model, estimators,
                trained_ok, refitted, last_fit>>

\* main(): the arguments are parsed and the report function of the mode starts.
MainStart(mode) ==
    /\ main.pc \in {"idle", "done", "failed"}
    /\ main' = [NoRun EXCEPT !.mode = mode, !.pc = "process"]
    /\ UNCHANGED <<model_vars, call, result, caller_df>>

\* A step that only writes a file: it returns, the file written, or it raises.
WriteFile(step, file, next) ==
    /\ \/ main' = [Returned(main, step, next) EXCEPT !.produced = @ \cup {file}]
       \/ main' = RaisedIn(main, step)
    /\ UNCHANGED <<model_vars, call, result, caller_df>>

\* processed_data = DataProcessor().process_pipeline()
MainProcess ==
    /\ main.pc = "process"
    /\ \/ \E in \in ProcessedInputs :
            main' = [Returned(main, "process",
                              IF main.mode = "data" THEN "done" ELSE "model")
                        EXCEPT !.in = in, !.produced = @ \cup {ProcessedCsv}]
       \/ main' = RaisedIn(main, "process")
    /\ UNCHANGED <<model_vars, call, result, caller_df>>

\* model = PredictiveModel()
MainNewModel ==
    /\ main.pc = "model"
    /\ is_trained' = FALSE
    /\ model_metrics' = NoMetrics
    /\ feature_names' = <<>>
    /\ self_model' = 1
    /\ estimators' = <<Unfitted>>
    /\ trained_ok' = FALSE
    /\ refitted' = FALSE
    /\ last_fit' = Unfitted
    /\ main' = Returned(main, "model", "train")
    /\ UNCHANGED <<call, result, caller_df>>

\* model.train(processed_data, target_column='sales')
MainTrain ==
    /\ main.pc = "train"
    /\ Train(main.in, DefaultSplit)
    /\ main' = AfterCall(main, result', "train", "forecast")

\* forecast = model.forecast(processed_data, periods=..., target_column='sales')
MainForecast ==
    /\ main.pc = "forecast"
    /\ Forecast(main.in, ReportPeriods(main.mode))
    /\ main' = AfterCall(main, result', "forecast",
                         IF main.mode = "forecast" THEN "to_excel" ELSE "save_forecast")

\* model.save_forecast(forecast)
MainSaveForecast ==
    /\ main.pc = "save_forecast"
    /\ WriteFile("save_forecast", ForecastCsv, "report")
\* generator.create_daily_report(processed_data, forecast)
MainReport ==
    /\ main.pc = "report"
    /\ WriteFile("report", DailyReport, "macro")
\* automation.create_vba_macro_file(), then the function returns
MainMacro ==
    /\ main.pc = "macro"
    /\ WriteFile("macro", MacroFile, "done")
\* forecast.to_excel(forecast_path, index=False), then the function returns
MainToExcel ==
    /\ main.pc = "to_excel"
    /\ WriteFile("to_excel", ForecastXlsx, "done")

MainNext ==
    \/ \E mode \in Modes : MainStart(mode)
    \/ MainProcess
    \/ MainNewModel
    \/ MainTrain
    \/ MainForecast
    \/ MainSaveForecast
    \/ MainReport
    \/ MainMacro
    \/ MainToExcel

MainSpec == Init /\ [][MainNext]_vars

TypeOK ==
    /\ is_trained \in BOOLEAN
    /\ trained_ok \in BOOLEAN
    /\ self_model \in 1..Len(estimators)
    /\ result.op \in {"none", "prepare_features", "train", "forecast", "clean_data"}
    /\ main.mode \in Modes
    /\ main.exit \in {0 - 1, 0, 1}

\* ------------------------------------------------------------------ claims
\* What the last call was given.
CallTable == Tables[Inputs[call.in].table]
CallTarget == Inputs[call.in].target
ForecastReturned == result.op = "forecast" /\ result.error = ""
TrainReturned == result.op = "train" /\ result.error = ""

\* The latest date among the observations of table df.
LatestDate(df) == CHOOSE d \in {df[t].date : t \in 1..Len(df)} :
                      \A t \in 1..Len(df) : d >= df[t].date

\* C1: a forecast that returns for a horizon H >= 1 holds exactly H points,
\* the first dated the day after the latest observed date and each next one
\* dated one day after the one before it (so the dates strictly increase).
C1_ForecastDates ==
    (ForecastReturned /\ call.periods >= 1) =>
        /\ Len(result.points) = call.periods
        /\ result.points[1].date = LatestDate(CallTable) + 1
        /\ \A j \in 1..(Len(result.points) - 1) :
              /\ result.points[j + 1].date = result.points[j].date + 1
              /\ result.points[j + 1].date > result.points[j].date

\* C1 witness: a forecast of the greatest horizon returned for a table whose
\* latest date is not on its last row.
C1_Witness ==
    /\ ForecastReturned
    /\ call.periods = MaxPeriods
    /\ Len(result.points) = MaxPeriods
    /\ CallTable[Len(CallTable)].date < LatestDate(CallTable)

\* C2 (as claimed): while no train call has returned, every forecast call
\* raises NotTrained and hands back no point.
C2_UntrainedForecastRaises ==
    (result.op = "forecast" /\ ~trained_ok) =>
        (result.error = NotTrained /\ result.points = <<>>)

\* C3 (as claimed): every forecast point has
\* lower_bound <= predicted_value <= upper_bound (bounds in tenths).
C3_BoundsBracket ==
    ForecastReturned =>
        \A j \in 1..Len(result.points) :
           /\ result.points[j].confidence_interval_lower
                 <= 10 * result.points[j].predicted
           /\ 10 * result.points[j].predicted
                 <= result.points[j].confidence_interval_upper

\* C4: every forecast point's predicted value is the estimator's prediction on
\* that step's working vector, and its bounds are 0.9 and 1.1 times that same
\* value (9 and 11 times it, in tenths).
C4_BoundsOfOwnPrediction ==
    ForecastReturned =>
        \A j \in 1..Len(result.points) :
           /\ result.points[j].predicted
                 = Predict(estimators[self_model], result.used[j])
           /\ result.points[j].confidence_interval_lower
                 = 9 * result.points[j].predicted
           /\ result.points[j].confidence_interval_upper
                 = 11 * result.points[j].predicted

\* C4 witness: a returned forecast of several points whose predictions differ
\* from step to step.
C4_Witness ==
    /\ ForecastReturned
    /\ Len(result.points) = MaxPeriods
    /\ \E j \in 1..(Len(result.points) - 1) :
          result.points[j].predicted # result.points[j + 1].predicted

\* C5 (as claimed): prepare_features on fewer than 15 observations, or with no
\* row left after dropping, raises InsufficientHistory.
C5_PrepareRaises ==
    (result.op = "prepare_features"
       /\ (Len(CallTable) < 15 \/ Len(result.index) = 0)) =>
        result.error = InsufficientHistory

\* C5 (amended): prepare_features never raises; on fewer than 15 observations
\* it returns an empty feature table (no row, the nine feature names).
C5_PrepareReturnsEmpty ==
    result.op = "prepare_features" =>
        /\ result.error = ""
        /\ result.names = feature_columns
        /\ Len(CallTable) < 15 => result.index = <<>>

\* C5 witness: prepare_features returned an empty table for 14 observations.
C5_Witness ==
    /\ result.op = "prepare_features"
    /\ Len(CallTable) = 14
    /\ result.error = ""
    /\ result.index = <<>>

\* C6: on a trained model, a forecast on observations that yield no feature
\* row raises InsufficientHistory and hands back no point.
C6_NoSeedRaises ==
    (result.op = "forecast" /\ is_trained /\ Len(Prepared[call.in].X) = 0) =>
        (result.error = InsufficientHistory /\ result.points = <<>>)

\* C6 witness: a model whose train returned is asked to forecast from a table
\* of 14 observations.
C6_Witness ==
    /\ result.op = "forecast"
    /\ trained_ok
    /\ Len(CallTable) = 14
    /\ call.periods >= 1
    /\ result.error = InsufficientHistory

\* The segment sizes test_size (percent) asks of n rows.
AskedTest(n, test_size) == CHOOSE k \in 0..(n + 1) :
                              100 * k >= test_size * n /\ 100 * (k - 1) < test_size * n
AskedTrain(n, test_size) == n - AskedTest(n, test_size)

\* C7: train raises, and hands back no metrics, whenever the valid rows and
\* test_size would leave the training or the test segment empty; metrics that
\* are handed back count at least one training and one test sample.
C7_EmptySegmentRaises ==
    result.op = "train" =>
        LET n == Len(Prepared[call.in].index)
        IN /\ (AskedTest(n, call.test_size) < 1 \/ AskedTrain(n, call.test_size) < 1)
                 => (result.error # "" /\ result.metrics = NoMetrics)
           /\ result.error = ""
                 => (result.metrics.train_samples >= 1 /\ result.metrics.test_samples >= 1)

\* C7 witness: train raised on two valid rows because test_size left no
\* training row.
C7_Witness ==
    /\ result.op = "train"
    /\ Len(Prepared[call.in].index) = 2
    /\ AskedTrain(2, call.test_size) = 0
    /\ result.error = InsufficientData

C9_FailedTrainChangesNothing ==
    [][(result'.op = "train" /\ result'.error # "")
          => UNCHANGED <<is_trained, estimators, self_model, feature_names,
                         model_metrics>>]_vars

\* C10 (as claimed): once an estimator is fitted, its coefficients and its
\* intercept never change.
C10_FittedNeverMutated ==
    [][\A r \in DOMAIN estimators :
          estimators[r].fitted => estimators'[r] = estimators[r]]_vars

\* C10 (amended): train refits the one estimator object in place: the model
\* keeps the estimator it was constructed with, no other estimator exists, and
\* whoever holds it sees the parameters of the most recent fit.
C10_RefitInPlace ==
    /\ self_model = 1
    /\ DOMAIN estimators = {1}
    /\ estimators[1] = last_fit

\* C10 witness: a fit has replaced the parameters of the fitted estimator by
\* different ones.
C10_Witness ==
    /\ refitted
    /\ estimators[1].fitted
    /\ DOMAIN estimators = {1}

C12_FixedNames ==
    (result.op = "prepare_features" /\ result.error = "") =>
        /\ result.names = <<"day_of_week", "day_of_month", "month", "quarter",
                            "lag_1", "lag_7", "lag_14",
                            "rolling_mean_7", "rolling_std_7">>
        /\ Len(result.X) = Len(result.y)
        /\ Len(result.X) = Len(result.index)

\* C12 witness: prepare_features returned the names with as many rows as a
\* table of the greatest length leaves, fewer than the table holds.
C12_Witness ==
    /\ result.op = "prepare_features"
    /\ result.error = ""
    /\ Len(result.names) = 9
    /\ Len(result.y) = MaxLen - 14
    /\ Len(CallTable) = MaxLen

\* C13: once a train has returned, every forecast that returns, for whatever
\* target column, hands the estimator vectors whose columns are, name by name
\* and position by position, the columns of the feature matrix of the last
\* train that returned (the names its metrics list the coefficients under).
C13_SameFeatureOrder ==
    (ForecastReturned /\ trained_ok) =>
        /\ Len(result.names) = Len(model_metrics.feature_importance)
        /\ \A j \in 1..Len(result.names) :
              result.names[j] = model_metrics.feature_importance[j][1]
        /\ \A j \in 1..Len(result.used) :
              DOMAIN result.used[j] = Range(result.names)

\* C13 witness: a forecast for revenue returned points on a model whose last
\* returned train fitted sales (its intercept is a value of the sales column).
C13_Witness ==
    /\ ForecastReturned
    /\ trained_ok
    /\ CallTarget = "revenue"
    /\ model_metrics.intercept \in 1..999
    /\ Len(result.points) >= 1
    /\ Len(result.names) = 9

\* C14 (as claimed): the metrics of a train that returns are all defined and
\* finite: R-squared on both segments is a number, and the mean squared errors
\* (and their roots) are sums of squares over at least one sample.
C14_MetricsFinite ==
    TrainReturned =>
        /\ result.metrics.r2_train.k = "num"
        /\ result.metrics.r2_test.k = "num"
        /\ result.metrics.train_samples >= 1 /\ result.metrics.sse_train >= 0
        /\ result.metrics.test_samples >= 1 /\ result.metrics.sse_test >= 0

\* C15: the metrics of a train that returns list, for each emitted feature
\* name and in the feature order, that name with the fitted coefficient at the
\* name's position, each name once, and num_features counts the entries.
C15_CoefficientMapping ==
    TrainReturned =>
        LET fi == result.metrics.feature_importance
        IN /\ Len(fi) = Len(result.names)
           /\ \A j \in 1..Len(fi) :
                 fi[j] = <<result.names[j], estimators[self_model].coef[j]>>
           /\ \A a, b \in 1..Len(fi) : fi[a][1] = fi[b][1] => a = b
           /\ result.metrics.num_features = Len(fi)

\* C15 witness: a train returned metrics whose mapping holds a coefficient
\* that is not zero, under lag_1.
C15_Witness ==
    /\ TrainReturned
    /\ result.metrics.num_features = 9
    /\ result.metrics.feature_importance[5] = <<"lag_1", 1>>

\* C16 (as claimed): every record of a returned forecast has the same fields
\* under names that do not depend on the target column: the predicted value
\* stands under predicted_sales, the name the reporting layer reads, whatever
\* target the forecast is for.
C16_FieldNamesFixed ==
    ForecastReturned =>
        \A j \in 1..Len(result.points) :
           /\ DOMAIN result.points[j]
                 = {"date", "key", "predicted", "forecast_period",
                    "confidence_interval_lower", "confidence_interval_upper"}
           /\ result.points[j].key = "predicted_sales"

\* C17 (as claimed): the table clean_data returns holds no missing cell in any
\* column, and the table passed to it is as it was passed.
C17_CleanNoMissing ==
    result.op = "clean_data" =>
        /\ \A t \in 1..Len(result.table) :
              \A c \in DOMAIN result.table[t] : ~IsNaN(result.table[t][c])
        /\ caller_df = [columns |-> {"date", "sales", "cost"}, rows |-> call.raw]

\* The value of the last observation of the table the call was given.
LastObserved == CallTable[Len(CallTable)][CallTarget]

\* C18: in a forecast that returns, the working vector step i leaves has
\* lag_1 set to the last observed target value when i = 0 and to the
\* prediction of step i - 1 when i > 0 (after[j] is the vector step j - 1
\* leaves, points[j] the point step j - 1 emits).
C18_LagFeedback ==
    ForecastReturned =>
        /\ Len(result.after) = Len(result.points)
        /\ \A j \in 1..Len(result.after) :
              result.after[j].lag_1 =
                  IF j = 1 THEN LastObserved
                  ELSE Num(result.points[j - 1].predicted)

\* C18 witness: a forecast of the greatest horizon whose first two predictions
\* differ, and whose first step changed lag_1.
C18_Witness ==
    /\ ForecastReturned
    /\ Len(result.after) = MaxPeriods
    /\ result.points[1].predicted # result.points[2].predicted
    /\ result.after[1].lag_1 # result.used[1].lag_1

\* C19 (as claimed): the lag_1 the estimator is given at step i is the value
\* of the day before the step's date: the last observed target value at
\* i = 0, the prediction of step i - 1 at i > 0.
C19_LagIsDayBefore ==
    ForecastReturned =>
        \A j \in 1..Len(result.used) :
           result.used[j].lag_1 =
               IF j = 1 THEN LastObserved
               ELSE Num(result.points[j - 1].predicted)

\* The seed feature row of the call: the last row prepare_features returns.
SeedRow == Prepared[call.in].X[Len(Prepared[call.in].X)]

\* C20: in a forecast that returns, lag_7, lag_14, rolling_mean_7 and
\* rolling_std_7 of the working vector are those of the seed feature row at
\* every step, both as the step hands the vector to the estimator and as the
\* step leaves it.
C20_LongLagsFrozen ==
    ForecastReturned =>
        \A j \in 1..Len(result.used) :
           \A c \in {"lag_7", "lag_14", "rolling_mean_7", "rolling_std_7"} :
              /\ result.used[j][c] = SeedRow[c]
              /\ result.after[j][c] = SeedRow[c]

\* C20 witness: a forecast of the greatest horizon in which lag_1 has moved
\* away from the seed row's and lag_7 has not.
C20_Witness ==
    /\ ForecastReturned
    /\ Len(result.used) = MaxPeriods
    /\ result.used[MaxPeriods].lag_1 # SeedRow.lag_1
    /\ result.used[MaxPeriods].lag_7 = SeedRow.lag_7
    /\ result.used[MaxPeriods].lag_1 # result.used[MaxPeriods].lag_7

\* C21: in a forecast that returns, the vector step i hands to the estimator
\* carries the calendar fields of the date i + 1 days after the latest
\* observed date: they lie in their ranges, the quarter is
\* ((month - 1) // 3) + 1, and they are the fields prepare_features derives
\* for that date (the seed row's own calendar values are overwritten).
C21_CalendarRefreshed ==
    ForecastReturned =>
        \A j \in 1..Len(result.used) :
           LET d == LatestDate(CallTable) + j
               v == result.used[j]
           IN /\ v.day_of_week = Num(DayOfWeek(d)) /\ v.day_of_week.n \in 0..6
              /\ v.day_of_month = Num(DayOfMonth(d)) /\ v.day_of_month.n \in 1..31
              /\ v.month = Num(MonthOf(d)) /\ v.month.n \in 1..12
              /\ v.quarter = Num(DtQuarter(d)) /\ v.quarter.n \in 1..4
              /\ v.quarter.n = ((v.month.n - 1) \div 3) + 1

\* C21 witness: a forecast of the greatest horizon whose first step falls in
\* another month and quarter than the seed row.
C21_Witness ==
    /\ ForecastReturned
    /\ Len(result.used) = MaxPeriods
    /\ result.used[1].month # SeedRow.month
    /\ result.used[1].quarter # SeedRow.quarter
    /\ result.used[1].day_of_week # SeedRow.day_of_week

\* The position, in the table the call was given, of the seed feature row.
SeedIndex == Prepared[call.in].index[Len(Prepared[call.in].index)]

\* C22 (as claimed): whenever forecast returns, the seed feature row belongs
\* to the latest observation: its observation bears the date the forecast is
\* dated from, and that observation's target value is what step 0 writes to
\* lag_1.
C22_SeedIsLatest ==
    ForecastReturned =>
        /\ CallTable[SeedIndex].date = LatestDate(CallTable)
        /\ \A j \in 1..Len(result.after) :
              j = 1 => result.after[j].lag_1 = CallTable[SeedIndex][CallTarget]

\* C23 (as claimed): prepare_features emits a row only for an observation
\* with at least 15 observations before it.
C23_Needs15Preceding ==
    result.op = "prepare_features" =>
        \A j \in 1..Len(result.index) : result.index[j] - 1 >= 15

\* C23 (amended): prepare_features emits a row only for an observation with
\* at least 14 observations before it (lag_14 is the target 14 positions
\* earlier) and so with the 6 before it that complete its 7-row window; no
\* other row reaches the training or test segment of train or seeds forecast.
C23_Needs14Preceding ==
    /\ result.op \in {"prepare_features", "train"} =>
           \A j \in 1..Len(result.index) :
              result.index[j] - 1 >= 14 /\ result.index[j] - 1 >= 6
    /\ TrainReturned =>
           \A j \in 1..Len(result.train \o result.test) :
              (result.train \o result.test)[j] - 1 >= 14
    /\ ForecastReturned => SeedIndex - 1 >= 14

\* C23 witness: prepare_features emitted the row of the observation that has
\* exactly 14 observations before it.
C23_Witness ==
    /\ result.op = "prepare_features"
    /\ Len(result.index) >= 2
    /\ result.index[1] - 1 = 14

\* A table of consecutive days, one without a missing cell, and one in which
\* every cell is a finite number.
ConsecutiveDays(df) == \A t \in 1..(Len(df) - 1) : df[t + 1].date = df[t].date + 1
NoneMissing(df) == \A t \in 1..Len(df) : ~IsNaN(df[t].sales) /\ ~IsNaN(df[t].revenue)
AllNumbers(df) == \A t \in 1..Len(df) : IsNum(df[t].sales) /\ IsNum(df[t].revenue)

\* The target over the 7 observations ending at position t.
Window(df, col, t) == [s \in 1..7 |-> df[t - 7 + s][col].n]

\* C24 (as claimed): for N consecutive daily observations without a missing
\* value, prepare_features emits exactly max(0, N - 14) rows.
C24_RowsWhenNoneMissing ==
    (result.op = "prepare_features"
       /\ ConsecutiveDays(CallTable) /\ NoneMissing(CallTable)) =>
        Len(result.X) = (IF Len(CallTable) > 14 THEN Len(CallTable) - 14 ELSE 0)

\* C24 (amended): for N consecutive daily observations without a missing or
\* an infinite value, prepare_features emits max(0, N - 14) rows, those of the observations at
\* positions 15..N (14..N-1 counting from 0) in input order, each with its own
\* target, with lag_k the target k positions earlier, and with the rolling
\* statistics of the 7 observations ending at it (the mean as the window's
\* sum, the deviation as 7 * sum of squares - square of the sum).
C24_ConsecutiveRows ==
    (result.op = "prepare_features"
       /\ ConsecutiveDays(CallTable) /\ AllNumbers(CallTable)) =>
        LET N == Len(CallTable)
        IN /\ Len(result.X) = (IF N > 14 THEN N - 14 ELSE 0)
           /\ Len(result.y) = Len(result.X)
           /\ \A j \in 1..Len(result.X) :
                 LET t == 14 + j
                     w == Window(CallTable, CallTarget, t)
                     sum == w[1] + w[2] + w[3] + w[4] + w[5] + w[6] + w[7]
                     squares == w[1] * w[1] + w[2] * w[2] + w[3] * w[3] + w[4] * w[4]
                                  + w[5] * w[5] + w[6] * w[6] + w[7] * w[7]
                 IN /\ result.index[j] = t
                    /\ result.y[j] = CallTable[t][CallTarget]
                    /\ result.X[j].lag_1 = CallTable[t - 1][CallTarget]
                    /\ result.X[j].lag_7 = CallTable[t - 7][CallTarget]
                    /\ result.X[j].lag_14 = CallTable[t - 14][CallTarget]
                    /\ result.X[j].rolling_mean_7 = Num(sum)
                    /\ result.X[j].rolling_std_7 = Num(7 * squares - sum * sum)

\* C24 witness: prepare_features returned N - 14 rows for a rising series of
\* the greatest length N.
C24_Witness ==
    /\ result.op = "prepare_features"
    /\ ConsecutiveDays(CallTable) /\ AllNumbers(CallTable)
    /\ Len(CallTable) = MaxLen
    /\ Len(result.X) = MaxLen - 14
    /\ result.X[1].lag_1 # result.X[1].lag_7
    /\ result.X[1].rolling_std_7.n > 0

\* C25 (as claimed): every row prepare_features emits has each lag_k taken
\* from the observation dated exactly k days before the row's own date; a row
\* whose date k days earlier is absent from the table is dropped.
C25_LagsAreDaysEarlier ==
    result.op = "prepare_features" =>
        \A j \in 1..Len(result.index) :
           \A k \in {1, 7, 14} :
              LET t == result.index[j]
              IN /\ \E s \in 1..Len(CallTable) :
                       CallTable[s].date = CallTable[t].date - k
                 /\ CallTable[t - k].date = CallTable[t].date - k

\* C26 (as claimed): prepare_features drops a row only when one of the row's
\* derived fields, or its target, is undefined; what the other columns hold
\* drops no row.
C26_DroppedOnlyForDerived ==
    result.op = "prepare_features" =>
        \A t \in 1..Len(CallTable) :
           (t \notin Range(result.index)) =>
               \/ IsNaN(CallTable[t][CallTarget])
               \/ \E c \in Range(feature_columns) :
                     IsNaN(FeatureRow(CallTable, CallTarget, t)[c])

\* C27: in a forecast that returns, the point emitted at step i has period
\* index i + 1, so the period indexes are 1, 2, ..., horizon in emission
\* order, and the point of period index p is dated p days after the latest
\* observed date.
C27_PeriodIndex ==
    ForecastReturned =>
        /\ Len(result.points) = call.periods
        /\ \A j \in 1..Len(result.points) :
              /\ result.points[j].forecast_period = j
              /\ result.points[j].date
                    = LatestDate(CallTable) + result.points[j].forecast_period

\* C27 witness: a forecast of the greatest horizon returned, its last point
\* bearing the horizon as period index, for a table with a skipped date.
C27_Witness ==
    /\ ForecastReturned
    /\ call.periods = MaxPeriods
    /\ result.points[MaxPeriods].forecast_period = MaxPeriods
    /\ ~ConsecutiveDays(CallTable)

C29_TrainedTracksSuccessfulTrain ==
    /\ [](/\ is_trained <=> trained_ok
          /\ is_trained =>
                /\ ~model_metrics.empty
                /\ feature_names = feature_columns
                /\ Len(feature_names) = model_metrics.num_features
                /\ estimators[self_model].intercept = model_metrics.intercept
                /\ \A j \in 1..NumFeatures :
                      estimators[self_model].coef[j]
                         = model_metrics.feature_importance[j][2])
    /\ [][is_trained => is_trained']_vars

\* The calls a run makes, in the order of its mode's function.
Pipeline(mode) ==
    CASE mode = "data" -> <<"process">>
      [] mode = "forecast" -> <<"process", "model", "train", "forecast", "to_excel">>
      [] OTHER -> <<"process", "model", "train", "forecast",
                    "save_forecast", "report", "macro">>
\* The forecast file of either mode and the report.
ForecastOutputs == {ForecastCsv, ForecastXlsx, DailyReport}

\* C30: in a run of main in mode daily, forecast or all, the calls that have
\* returned are an initial part of process, new model, train, forecast, save
\* or report, in that order; train is called on a model just constructed;
\* forecast is called only after train has returned on that model and never
\* raises NotTrained; a forecast file or a report is written only after
\* forecast returned its points; and a run in which train or forecast raised
\* has written no forecast file and no report and exits with status 1.
C30_RunInSequence ==
    (main.pc # "idle" /\ main.mode \in {"daily", "forecast", "all"}) =>
        /\ Len(main.steps) <= Len(Pipeline(main.mode))
        /\ main.steps = SubSeq(Pipeline(main.mode), 1, Len(main.steps))
        /\ main.pc = "train" =>
              /\ ~is_trained /\ ~estimators[self_model].fitted
              /\ model_metrics = NoMetrics /\ feature_names = <<>>
        /\ main.pc = "forecast" =>
              /\ is_trained /\ trained_ok
              /\ result.op = "train" /\ result.error = "" /\ call.in = main.in
        /\ result.op = "forecast" => result.error # NotTrained
        /\ main.produced \cap ForecastOutputs # {} =>
              /\ ForecastReturned /\ call.in = main.in
              /\ Len(result.points) = ReportPeriods(main.mode)
              /\ main.failed \notin {"train", "forecast"}
        /\ main.failed \in {"train", "forecast"} =>
              /\ main.pc = "failed" /\ main.exit = 1
              /\ main.produced \cap ForecastOutputs = {}
        /\ main.exit = 1 <=> main.pc = "failed"
        /\ main.exit = 0 <=> main.pc = "done"
        /\ main.pc = "done" => main.steps = Pipeline(main.mode)

\* C30 witness: a run in mode forecast whose train returned and whose forecast
\* raised: it has exited with status 1 and written no forecast file.
C30_Witness ==
    /\ main.mode = "forecast" /\ main.failed = "forecast"
    /\ main.steps = <<"process", "model", "train">>
    /\ trained_ok /\ result.op = "forecast" /\ result.error = NonFinite
    /\ main.exit = 1 /\ ForecastXlsx \notin main.produced

====
